---- MODULE Spec2Model ----
(***************************************************************************)
(* Model of scripts/fetch_transcripts.py: the transcript fetcher that      *)
(* drives the rows of the Ingest_Queue worksheet through                   *)
(*   Pending -> Ready for AI (lang) | Transcript Failed [xN]               *)
(*           -> Permanently Failed.                                        *)
(*                                                                         *)
(* Strings are TLA+ strings handled with Len, SubSeq and \o, so strip(),   *)
(* startswith(), the regex of parse_retry_count and the f-strings are      *)
(* computed character by character as the Python code computes them.       *)
(* The worksheet is the matrix returned by get_all_values(): row 1 holds   *)
(* the headers, data rows start at row 2 (gspread pads every row to the    *)
(* same width).  A text too long to enumerate (a transcript) is a record   *)
(* holding where it came from and its length.                              *)
(***************************************************************************)
EXTENDS Integers, Sequences, FiniteSets, TLC

VARIABLES
    sheet,          \* the worksheet: sheet[row_num][col], 1-based as in update_cell
    files,          \* the working directory: a set of [name, len] (len: length of the normalized text)
    pc,             \* per run: where process_rows stands
    rows,           \* per run: the value of worksheet.get_all_values()
    pending_rows,   \* per run: list of (row_num, video_id, status)
    retry_rows,     \* per run: list of (row_num, video_id, status, retries)
    processed,      \* per run: rows processed so far
    idx,            \* per run: position of the for loop in the current list
    cur,            \* per run: the frame of _process_one_row (arguments, fetch result, cell writes issued)
    done,           \* per run: (row_num, code) of the calls of _process_one_row that returned (the log)
    invoked,        \* history: number of fetch_transcript calls per row_num
    kills           \* history: number of runs terminated externally

vars == <<sheet, files, pc, rows, pending_rows, retry_rows, processed, idx, cur, done, invoked, kills>>

-----------------------------------------------------------------------------
(* Bounds of the model *)

\* number of data rows of the worksheet
NRows == 3
\* the run budget, scaled down from the 50 of the source so that a pending
\* list can reach it
MAX_ROWS_PER_RUN == 2
\* number of external terminations of a run in one behaviour
MaxKills == 2

(* Program constants *)
MAX_RETRIES == 3
MIN_TEXT_LEN == 50
MAX_TEXT_LEN == 49000

\* the overlapping runs (scheduled triggers)
Workers == {"A", "B"}

-----------------------------------------------------------------------------
(* Python string operations *)

Char(s, i) == SubSeq(s, i, i)

IsSpace(c) == c \in {" ", "\t", "\n", "\r"}

IsDigit(c) == c \in {"0", "1", "2", "3", "4", "5", "6", "7", "8", "9"}

DigitVal(c) ==
    CASE c = "0" -> 0 [] c = "1" -> 1 [] c = "2" -> 2 [] c = "3" -> 3 [] c = "4" -> 4
      [] c = "5" -> 5 [] c = "6" -> 6 [] c = "7" -> 7 [] c = "8" -> 8 [] c = "9" -> 9

DigitChar(d) ==
    CASE d = 0 -> "0" [] d = 1 -> "1" [] d = 2 -> "2" [] d = 3 -> "3" [] d = 4 -> "4"
      [] d = 5 -> "5" [] d = 6 -> "6" [] d = 7 -> "7" [] d = 8 -> "8" [] d = 9 -> "9"

RECURSIVE LStrip(_)
LStrip(s) ==
    IF Len(s) > 0 /\ IsSpace(Char(s, 1)) THEN LStrip(SubSeq(s, 2, Len(s))) ELSE s

RECURSIVE RStrip(_)
RStrip(s) ==
    IF Len(s) > 0 /\ IsSpace(Char(s, Len(s))) THEN RStrip(SubSeq(s, 1, Len(s) - 1)) ELSE s

\* str.strip()
Strip(s) == RStrip(LStrip(s))

\* str.startswith(p)
StartsWith(s, p) == Len(s) >= Len(p) /\ SubSeq(s, 1, Len(p)) = p

\* str.endswith(p)
EndsWith(s, p) == Len(s) >= Len(p) /\ SubSeq(s, Len(s) - Len(p) + 1, Len(s)) = p

\* p in s
Contains(s, p) ==
    \E i \in 1..(Len(s) - Len(p) + 1) : SubSeq(s, i, i + Len(p) - 1) = p

\* int(s) for a string of decimal digits
RECURSIVE StrToInt(_)
StrToInt(s) ==
    IF Len(s) = 0 THEN 0
    ELSE 10 * StrToInt(SubSeq(s, 1, Len(s) - 1)) + DigitVal(Char(s, Len(s)))

\* str(n) for n >= 0, as an f-string renders it
RECURSIVE IntToStr(_)
IntToStr(n) ==
    IF n < 10 THEN DigitChar(n) ELSE IntToStr(n \div 10) \o DigitChar(n % 10)

\* number of digits the string ends with
RECURSIVE TrailingDigits(_)
TrailingDigits(s) ==
    IF Len(s) > 0 /\ IsDigit(Char(s, Len(s)))
    THEN 1 + TrailingDigits(SubSeq(s, 1, Len(s) - 1))
    ELSE 0

\* position of the last "." of s, 0 when there is none
RECURSIVE LastDot(_)
LastDot(s) ==
    IF Len(s) = 0 THEN 0
    ELSE IF Char(s, Len(s)) = "." THEN Len(s)
    ELSE LastDot(SubSeq(s, 1, Len(s) - 1))

\* s.split(".")[-2], for s holding at least one "."
SplitDotPenultimate(s) ==
    LET head == SubSeq(s, 1, LastDot(s) - 1)
    IN  SubSeq(head, LastDot(head) + 1, Len(head))

Min(a, b) == IF a <= b THEN a ELSE b

-----------------------------------------------------------------------------
(* Status strings *)

\* parse_retry_count with a status without a numeric suffix read as 0
parse_retry_count_NoSuffixZero(status) ==
    LET n == Len(status)
        k == TrailingDigits(status)
    IN  IF k >= 1 /\ n > k /\ Char(status, n - k) = "x"
        THEN StrToInt(SubSeq(status, n - k + 1, n))
        ELSE 0

\* re.search(r"x(\d+)$", status): the digits the status ends with, when an
\* "x" stands right before them; 1 otherwise
parse_retry_count(status) ==
    LET n == Len(status)
        k == TrailingDigits(status)
    IN  IF k >= 1 /\ n > k /\ Char(status, n - k) = "x"
        THEN StrToInt(SubSeq(status, n - k + 1, n))
        ELSE 1

\* ReadyStatus with the language hard-coded
ReadyStatus_En(lang) == "Ready for AI (en)"

\* f"Ready for AI ({lang})"
ReadyStatus(lang) == "Ready for AI (" \o lang \o ")"

\* FailedStatus with the ceiling test written > instead of >=
FailedStatus_Gt(retry_count) ==
    LET new_count == retry_count + 1
    IN  IF new_count > MAX_RETRIES THEN "Permanently Failed"
        ELSE IF new_count = 1 THEN "Transcript Failed"
        ELSE "Transcript Failed x" \o IntToStr(new_count)

\* FailedStatus without the ceiling: the count is written whatever it is
FailedStatus_NoCeiling(retry_count) ==
    LET new_count == retry_count + 1
    IN  IF new_count = 1 THEN "Transcript Failed"
        ELSE "Transcript Failed x" \o IntToStr(new_count)

\* the status _process_one_row writes after a transient failure
FailedStatus(retry_count) ==
    LET new_count == retry_count + 1
    IN  IF new_count >= MAX_RETRIES THEN "Permanently Failed"
        ELSE IF new_count = 1 THEN "Transcript Failed"
        ELSE "Transcript Failed x" \o IntToStr(new_count)

-----------------------------------------------------------------------------
(* Texts: what fetch_transcript returns as its second component and what a *)
(* Transcript cell holds                                                   *)

\* a short text known in full
Diag(s) == [kind |-> "diag", of |-> s, len |-> Len(s)]

\* the normalized text of caption file `name`, cut to n characters
Caption(name, n) == [kind |-> "caption", of |-> name, len |-> n]

\* an empty cell
EmptyText == [kind |-> "cell", of |-> "", len |-> 0]

\* a transcript stored by an earlier stage
PriorText == [kind |-> "cell", of |-> "prior", len |-> MIN_TEXT_LEN + 1]

\* Truncate that keeps the whole text
Truncate_None(text, n) == text

\* text[:n]
Truncate(text, n) == [text EXCEPT !.len = Min(text.len, n)]

-----------------------------------------------------------------------------
(* fetch_transcript *)

\* f"temp_{video_id}"
TempPrefix(video_id) == "temp_" \o video_id

\* a file of the working directory; len is the length of the text the
\* normalizing loop makes of its content
File(name, n) == [name |-> name, len |-> n]

IsCaptionName(name) ==
    EndsWith(name, ".vtt") \/ EndsWith(name, ".srv3") \/ EndsWith(name, ".ttml")

\* the directory after the tool has written `created` (same names are replaced)
WriteFiles(dir, created) ==
    {f \in dir : \A g \in created : g.name # f.name} \cup created

\* The file sets one invocation of yt-dlp may write for a video: nothing, a
\* caption that is too short, a usable caption, an over-long caption next to
\* a non-caption file, two captions at once.
ToolFileSets(video_id) ==
    LET en   == TempPrefix(video_id) \o ".en.vtt"
        ko   == TempPrefix(video_id) \o ".ko.srv3"
        part == TempPrefix(video_id) \o ".en.vtt.part"
    IN  { {},
          {File(en, MIN_TEXT_LEN)},
          {File(en, MIN_TEXT_LEN + 1)},
          {File(ko, MAX_TEXT_LEN + 1), File(part, 0)},
          {File(en, MIN_TEXT_LEN + 1), File(ko, MAX_TEXT_LEN + 1)} }

\* what yt-dlp prints on stderr
ToolStderrs ==
    { "",
      "ERROR: [youtube] Sign in to confirm your age",
      "ERROR: [youtube] Video unavailable",
      "ERROR: [youtube] Private video. Sign in if you've been granted access",
      "ERROR: [youtube] Private video",
      "  ERROR: unable to download video data: HTTP Error 429  " }

\* One invocation of subprocess.run(cmd, timeout=45): the tool exits with a
\* return code, is killed by the timeout, or an exception other than the
\* timeout is raised inside the try block (spawning the tool, reading or
\* removing the caption file).
ToolRuns(video_id) ==
    [end : {"exit"}, returncode : {0, 1}, stderr : ToolStderrs, created : ToolFileSets(video_id)]
    \cup [end : {"timeout", "raise"}, returncode : {1}, stderr : {""},
          created : { {}, {File(TempPrefix(video_id) \o ".en.vtt.part", 0)} }]

\* The tool behaviours that differ in what process_rows does next: a usable
\* caption, a sign-in error, any other error, the timeout.
CoreRuns(video_id) ==
    { [end |-> "exit", returncode |-> 0, stderr |-> "",
       created |-> {File(TempPrefix(video_id) \o ".en.vtt", MIN_TEXT_LEN + 1)}],
      [end |-> "exit", returncode |-> 1, stderr |-> "ERROR: [youtube] Sign in to confirm your age",
       created |-> {}],
      [end |-> "exit", returncode |-> 1, stderr |-> "", created |-> {}],
      [end |-> "timeout", returncode |-> 1, stderr |-> "", created |-> {}] }

\* The tool behaviours that tell the text of one fetch from the text of
\* another: two usable captions in different languages, an error, a sign-in
\* error.
TwoTextRuns(video_id) ==
    { [end |-> "exit", returncode |-> 0, stderr |-> "",
       created |-> {File(TempPrefix(video_id) \o ".en.vtt", MIN_TEXT_LEN + 1)}],
      [end |-> "exit", returncode |-> 0, stderr |-> "",
       created |-> {File(TempPrefix(video_id) \o ".ko.srv3", MAX_TEXT_LEN + 1)}],
      [end |-> "exit", returncode |-> 1, stderr |-> "ERROR: [youtube] Sign in to confirm your age",
       created |-> {}],
      [end |-> "exit", returncode |-> 1, stderr |-> "", created |-> {}] }

\* the tool behaviours a specification lets the tool show
RunsOf(tool, video_id) ==
    IF tool = "core" THEN CoreRuns(video_id)
    ELSE IF tool = "two texts" THEN TwoTextRuns(video_id)
    ELSE ToolRuns(video_id)

\* the classification of lines 141-155, given the text found
Classify(run, found_text, lang_found) ==
    IF found_text.len > MIN_TEXT_LEN
    THEN [code |-> "OK", text |-> Truncate(found_text, MAX_TEXT_LEN), lang |-> lang_found]
    ELSE IF run.returncode # 0
    THEN IF Contains(run.stderr, "Sign in")
         THEN [code |-> "PERMANENT", text |-> Diag("Age Restricted / Sign-in Required"), lang |-> "xx"]
         ELSE IF Contains(run.stderr, "Video unavailable")
         THEN [code |-> "PERMANENT", text |-> Diag("Video Deleted or Private"), lang |-> "xx"]
         ELSE IF Contains(run.stderr, "Private video")
         THEN [code |-> "PERMANENT", text |-> Diag("Video is Private"), lang |-> "xx"]
         ELSE [code |-> "FAILED",
               text |-> Diag("yt-dlp error: " \o SubSeq(Strip(run.stderr), 1, Min(100, Len(Strip(run.stderr))))),
               lang |-> "xx"]
    ELSE [code |-> "FAILED", text |-> Diag("No transcript data found"), lang |-> "xx"]

\* the second loop of fetch_transcript: remove every file of the prefix
CleanUp(dir, video_id) ==
    {f \in dir : ~StartsWith(f.name, TempPrefix(video_id))}

\* fetch_transcript(video_id) in directory dir when the tool behaves as run:
\* the set of possible (code, text, lang, files), one per file os.listdir may
\* yield first among the matching caption files.
fetch_transcript(video_id, run, dir) ==
    LET after    == WriteFiles(dir, run.created)
        captions == {f \in after : StartsWith(f.name, TempPrefix(video_id)) /\ IsCaptionName(f.name)}
        Ret(r, d) == [code |-> r.code, text |-> r.text, lang |-> r.lang, files |-> d]
    IN  IF run.end = "timeout"
        THEN {Ret([code |-> "FAILED", text |-> Diag("yt-dlp timed out after 45s"), lang |-> "xx"], after)}
        ELSE IF run.end = "raise"
        THEN {Ret([code |-> "FAILED", text |-> Diag("str(e)"), lang |-> "xx"], after)}
        ELSE IF captions = {}
        THEN {Ret(Classify(run, EmptyText, "xx"), CleanUp(after, video_id))}
        ELSE {Ret(Classify(run, Caption(f.name, f.len), SplitDotPenultimate(f.name)),
                  CleanUp(after \ {f}, video_id)) : f \in captions}

-----------------------------------------------------------------------------
(* The worksheet *)

\* headers.index(name): 0-based position of the first header equal to name
HasHeader(headers, name) == \E i \in 1..Len(headers) : headers[i] = name

HeaderIndex(headers, name) ==
    (CHOOSE i \in 1..Len(headers) :
        headers[i] = name /\ \A j \in 1..(i - 1) : headers[j] # name) - 1

\* HeadersComplete with the look-up of "Transcript" left out
HeadersComplete_NoTranscript(headers) ==
    HasHeader(headers, "Video ID") /\ HasHeader(headers, "Status")

\* the ValueError of lines 181-186
HeadersComplete(headers) ==
    HasHeader(headers, "Video ID") /\ HasHeader(headers, "Transcript") /\ HasHeader(headers, "Status")

\* update_cell with the row taken 0-based (the index i of the scan instead
\* of row_num = i + 1)
update_cell_RowIndex(sh, row, col, value) == [sh EXCEPT ![row - 1][col] = value]

\* worksheet.update_cell(row, col, value), row and col 1-based
update_cell(sh, row, col, value) == [sh EXCEPT ![row][col] = value]

\* RowClass with the retry test widened from a prefix test to '"Failed" in status'
RowClass_AnyFailed(rws, row_num, id_col, status_col) ==
    LET row == rws[row_num]
    IN  IF Len(row) <= status_col THEN "skip"
        ELSE LET video_id == Strip(row[id_col + 1])
                 status   == Strip(row[status_col + 1])
             IN  IF video_id = "" THEN "skip"
                 ELSE IF status = "Pending" \/ status = "Pending Transcript" THEN "pending"
                 ELSE IF Contains(status, "Failed")
                 THEN IF parse_retry_count(status) >= MAX_RETRIES THEN "maxed" ELSE "retry"
                 ELSE "skip"

\* RowClass with the ceiling test written == instead of >=
RowClass_EqCeiling(rws, row_num, id_col, status_col) ==
    LET row == rws[row_num]
    IN  IF Len(row) <= status_col THEN "skip"
        ELSE LET video_id == Strip(row[id_col + 1])
                 status   == Strip(row[status_col + 1])
             IN  IF video_id = "" THEN "skip"
                 ELSE IF status = "Pending" \/ status = "Pending Transcript" THEN "pending"
                 ELSE IF StartsWith(status, "Transcript Failed")
                 THEN IF parse_retry_count(status) = MAX_RETRIES THEN "maxed" ELSE "retry"
                 ELSE "skip"

\* the class the scan of lines 195-215 gives to row i = row_num - 1
RowClass(rws, row_num, id_col, status_col) ==
    LET row == rws[row_num]
    IN  IF Len(row) <= status_col THEN "skip"
        ELSE LET video_id == Strip(row[id_col + 1])
                 status   == Strip(row[status_col + 1])
             IN  IF video_id = "" THEN "skip"
                 ELSE IF status = "Pending" \/ status = "Pending Transcript" THEN "pending"
                 ELSE IF StartsWith(status, "Transcript Failed")
                 THEN IF parse_retry_count(status) >= MAX_RETRIES THEN "maxed" ELSE "retry"
                 ELSE "skip"

\* pending_rows after the scan has reached row_num = n
RECURSIVE ScanPending(_, _, _, _)
ScanPending(rws, n, id_col, status_col) ==
    IF n < 2 THEN <<>>
    ELSE ScanPending(rws, n - 1, id_col, status_col) \o
         ( IF RowClass(rws, n, id_col, status_col) = "pending"
           THEN << <<n, Strip(rws[n][id_col + 1]), Strip(rws[n][status_col + 1])>> >>
           ELSE <<>> )

\* retry_rows after the scan has reached row_num = n
RECURSIVE ScanRetry(_, _, _, _)
ScanRetry(rws, n, id_col, status_col) ==
    IF n < 2 THEN <<>>
    ELSE ScanRetry(rws, n - 1, id_col, status_col) \o
         ( IF RowClass(rws, n, id_col, status_col) = "retry"
           THEN << <<n, Strip(rws[n][id_col + 1]), Strip(rws[n][status_col + 1]),
                     parse_retry_count(Strip(rws[n][status_col + 1]))>> >>
           ELSE <<>> )

id_col(rws) == HeaderIndex(rws[1], "Video ID")
transcript_col(rws) == HeaderIndex(rws[1], "Transcript")
status_col(rws) == HeaderIndex(rws[1], "Status")

-----------------------------------------------------------------------------
(* Initial states *)

GoodHeaders == <<"Video ID", "Status", "Transcript">>

\* a layout with all three headers, and the layouts with one of them missing
HeaderLayouts ==
    { GoodHeaders,
      <<"Video", "Status", "Transcript">>,
      <<"Video ID", "State", "Transcript">>,
      <<"Video ID", "Status", "Text">> }

\* the video id the upstream stage stored in row_num
VideoId(row_num) == "vid" \o IntToStr(row_num)

\* status cells a row may start with: every row may be new or failed once;
\* the other values are spread over the rows
InitStatuses(row_num) ==
    {"Pending", "Transcript Failed"} \cup
    ( CASE row_num % 3 = 2 -> {" Pending ", "Ready for AI (en)", ""}
        [] row_num % 3 = 0 -> {"Transcript Failed x2", "Transcript Failed x3", "Analyzed"}
        [] OTHER           -> {"Pending Transcript", "Transcript Failed x", "Transcript Failed x0",
                               "Transcript Failed x12"} )

\* the data rows a row_num may start with, in the GoodHeaders layout
InitDataRows(row_num) ==
    { <<VideoId(row_num), st, IF StartsWith(st, "Ready") THEN PriorText ELSE EmptyText>> :
        st \in InitStatuses(row_num) }
    \cup { <<"  ", "Pending", EmptyText>> }

RowNums == 2..(NRows + 1)

\* the worksheets a behaviour may start from
InitSheets ==
    { <<h>> \o [i \in 1..NRows |-> d[i + 1]] :
        h \in HeaderLayouts, d \in {e \in [RowNums -> UNION {InitDataRows(r) : r \in RowNums}] :
                                       \A r \in RowNums : e[r] \in InitDataRows(r)} }

\* the worksheets two overlapping runs start from: one row to race for, the
\* rows after it have a blank video id
OverlapSheets ==
    {sh \in InitSheets : \A r \in RowNums \ {2} : sh[r][1] = "  "}

\* the worksheets the single run under every tool behaviour starts from: the
\* statuses a run tells apart (new, failed once, failed twice, done)
RunSheets ==
    {sh \in InitSheets :
        \A r \in RowNums :
            sh[r][2] \in {"Pending", "Pending Transcript", "Transcript Failed",
                          "Transcript Failed x2", "Ready for AI (en)"}}

\* the worksheets sequential runs that may be terminated start from: all
\* three headers, the statuses a run tells apart, a video id in rows 2 and 3
\* only
CrashSheets ==
    {sh \in RunSheets : HeadersComplete(sh[1]) /\ \A r \in RowNums \ {2, 3} : sh[r][1] = "  "}

\* the worksheets of the runs repeated for ever: all three headers, rows
\* that are new, failed twice or over the ceiling, a video id in rows 2 and
\* 3, in row 4 or not, and in no other row
LiveSheets ==
    {sh \in InitSheets :
        /\ HeadersComplete(sh[1])
        /\ \A r \in RowNums \ {2, 3, 4} : sh[r][1] = "  "
        /\ \A r \in {2, 3} : sh[r][1] # "  "
        /\ \A r \in RowNums :
              sh[r][2] \in {"Pending", "Transcript Failed x2", "Transcript Failed x3"}}

NoFrame ==
    [row_num |-> 0, video_id |-> "", retry_count |-> 0,
     code |-> "", text |-> EmptyText, lang |-> "", ret |-> "", writes |-> 0]

InitWith(sheets) ==
    /\ sheet \in sheets
    /\ files = {}
    /\ pc = [w \in Workers |-> "idle"]
    /\ rows = [w \in Workers |-> <<>>]
    /\ pending_rows = [w \in Workers |-> <<>>]
    /\ retry_rows = [w \in Workers |-> <<>>]
    /\ processed = [w \in Workers |-> 0]
    /\ idx = [w \in Workers |-> 1]
    /\ cur = [w \in Workers |-> NoFrame]
    /\ done = [w \in Workers |-> <<>>]
    /\ invoked = [r \in RowNums |-> 0]
    /\ kills = 0

Init == InitWith(InitSheets)

InitOverlap == InitWith(OverlapSheets)

InitRun == InitWith(RunSheets)

InitCrash == InitWith(CrashSheets)

InitLive == InitWith(LiveSheets)

-----------------------------------------------------------------------------
(* process_rows and _process_one_row, one run per worker *)

Stopped(w) == pc[w] \in {"idle", "done", "exit", "killed"}

\* lines 178-186: the bulk read finds a required header missing: sys.exit
StartRunExit(w) ==
    /\ Stopped(w)
    /\ ~HeadersComplete(sheet[1])
    /\ pc' = [pc EXCEPT ![w] = "exit"]
    /\ rows' = [rows EXCEPT ![w] = sheet]
    /\ pending_rows' = [pending_rows EXCEPT ![w] = <<>>]
    /\ retry_rows' = [retry_rows EXCEPT ![w] = <<>>]
    /\ processed' = [processed EXCEPT ![w] = 0]
    /\ idx' = [idx EXCEPT ![w] = 1]
    /\ cur' = [cur EXCEPT ![w] = NoFrame]
    /\ done' = [done EXCEPT ![w] = <<>>]
    /\ UNCHANGED <<sheet, files, invoked, kills>>

\* lines 178-229: the bulk read and the scan into the two lists
StartRun(w) ==
    /\ Stopped(w)
    /\ HeadersComplete(sheet[1])
    /\ pc' = [pc EXCEPT ![w] = "pass1"]
    /\ rows' = [rows EXCEPT ![w] = sheet]
    /\ pending_rows' = [pending_rows EXCEPT ![w] =
            ScanPending(sheet, Len(sheet), id_col(sheet), status_col(sheet))]
    /\ retry_rows' = [retry_rows EXCEPT ![w] =
            ScanRetry(sheet, Len(sheet), id_col(sheet), status_col(sheet))]
    /\ processed' = [processed EXCEPT ![w] = 0]
    /\ idx' = [idx EXCEPT ![w] = 1]
    /\ cur' = [cur EXCEPT ![w] = NoFrame]
    /\ done' = [done EXCEPT ![w] = <<>>]
    /\ UNCHANGED <<sheet, files, invoked, kills>>

\* BudgetLeft with the test off by one
BudgetLeft_OffByOne(w) == processed[w] <= MAX_ROWS_PER_RUN

\* lines 233, 243, 248: the budget is not used up
BudgetLeft(w) == processed[w] < MAX_ROWS_PER_RUN

\* lines 260-266: _process_one_row calls fetch_transcript, an exception that
\* escapes it (a code that is none of the three) becomes a failure; what is
\* left of the call is the update_cell calls
CallProcessOneRow(w, row_num, video_id, retry_count, ret, tool) ==
    \E run \in RunsOf(tool, video_id) :
        \E res \in fetch_transcript(video_id, run, files) :
            /\ cur' = [cur EXCEPT ![w] =
                    IF res.code \in {"OK", "PERMANENT", "FAILED"}
                    THEN [row_num |-> row_num, video_id |-> video_id, retry_count |-> retry_count,
                          code |-> res.code, text |-> res.text, lang |-> res.lang, ret |-> ret,
                          writes |-> 0]
                    ELSE [row_num |-> row_num, video_id |-> video_id, retry_count |-> retry_count,
                          code |-> "FAILED", text |-> Diag("Unexpected Python exception"),
                          lang |-> "xx", ret |-> ret, writes |-> 0]]
            /\ files' = res.files
            /\ invoked' = [invoked EXCEPT ![row_num] = @ + 1]
            /\ pc' = [pc EXCEPT ![w] = "write1"]

\* lines 232-239: one iteration of pass 1, up to the first cell write
Pass1Row(w, tool) ==
    /\ pc[w] = "pass1"
    /\ idx[w] <= Len(pending_rows[w])
    /\ BudgetLeft(w)
    /\ CallProcessOneRow(w, pending_rows[w][idx[w]][1], pending_rows[w][idx[w]][2], 0, "pass1", tool)
    /\ UNCHANGED <<sheet, rows, pending_rows, retry_rows, processed, idx, done, kills>>

\* Pass1End with no test: pass 1 may be left at any row
Pass1End_Early(w) ==
    /\ pc[w] = "pass1"
    /\ pc' = [pc EXCEPT ![w] = "pass2"]
    /\ idx' = [idx EXCEPT ![w] = 1]
    /\ UNCHANGED <<sheet, files, rows, pending_rows, retry_rows, processed, cur, done, invoked, kills>>

\* lines 232-234: pass 1 ends, by exhaustion or by the budget
Pass1End(w) ==
    /\ pc[w] = "pass1"
    /\ (idx[w] > Len(pending_rows[w]) \/ ~BudgetLeft(w))
    /\ pc' = [pc EXCEPT ![w] = "pass2"]
    /\ idx' = [idx EXCEPT ![w] = 1]
    /\ UNCHANGED <<sheet, files, rows, pending_rows, retry_rows, processed, cur, done, invoked, kills>>

\* lines 243-254: one iteration of pass 2, up to the first cell write
Pass2Row(w, tool) ==
    /\ pc[w] = "pass2"
    /\ BudgetLeft(w)
    /\ idx[w] <= Len(retry_rows[w])
    /\ CallProcessOneRow(w, retry_rows[w][idx[w]][1], retry_rows[w][idx[w]][2],
                         retry_rows[w][idx[w]][4], "pass2", tool)
    /\ UNCHANGED <<sheet, rows, pending_rows, retry_rows, processed, idx, done, kills>>

\* lines 243-257: pass 2 is skipped or ends
Pass2End(w) ==
    /\ pc[w] = "pass2"
    /\ (~BudgetLeft(w) \/ idx[w] > Len(retry_rows[w]))
    /\ pc' = [pc EXCEPT ![w] = "done"]
    /\ UNCHANGED <<sheet, files, rows, pending_rows, retry_rows, processed, idx, cur, done, invoked, kills>>

\* Return with a failed row ending the run (a break in the failure branch)
Return_AbortOnFailure(w) ==
    /\ processed' = [processed EXCEPT ![w] = @ + 1]
    /\ idx' = [idx EXCEPT ![w] = @ + 1]
    /\ done' = [done EXCEPT ![w] = Append(@, [row_num |-> cur[w].row_num, code |-> cur[w].code])]
    /\ cur' = [cur EXCEPT ![w] = NoFrame]
    /\ pc' = [pc EXCEPT ![w] = IF cur[w].code = "FAILED" THEN "done" ELSE cur[w].ret]

\* _process_one_row returns 1: processed += 1 and the loop moves on
Return(w) ==
    /\ processed' = [processed EXCEPT ![w] = @ + 1]
    /\ idx' = [idx EXCEPT ![w] = @ + 1]
    /\ done' = [done EXCEPT ![w] = Append(@, [row_num |-> cur[w].row_num, code |-> cur[w].code])]
    /\ cur' = [cur EXCEPT ![w] = NoFrame]
    /\ pc' = [pc EXCEPT ![w] = cur[w].ret]

\* FirstWrite with a permanent failure sent through the retry counter
FirstWrite_PermanentCounted(w) ==
    LET c == cur[w]
    IN  IF c.code = "OK"
        THEN update_cell(sheet, c.row_num, transcript_col(rows[w]) + 1, c.text)
        ELSE update_cell(sheet, c.row_num, status_col(rows[w]) + 1, FailedStatus(c.retry_count))

\* FirstWrite with the failure count taken from the Status cell as it is at
\* the time of the write instead of from the bulk read
FirstWrite_FromCell(w) ==
    LET c == cur[w]
        cell == Strip(sheet[c.row_num][status_col(rows[w]) + 1])
    IN  IF c.code = "OK"
        THEN update_cell(sheet, c.row_num, transcript_col(rows[w]) + 1, c.text)
        ELSE IF c.code = "PERMANENT"
        THEN update_cell(sheet, c.row_num, status_col(rows[w]) + 1, "Permanently Failed")
        ELSE update_cell(sheet, c.row_num, status_col(rows[w]) + 1,
                         FailedStatus(IF StartsWith(cell, "Transcript Failed")
                                      THEN parse_retry_count(cell) ELSE 0))

\* FirstWrite with the status of a success written before its transcript
FirstWrite_StatusFirst(w) ==
    LET c == cur[w]
    IN  IF c.code = "OK"
        THEN update_cell(sheet, c.row_num, status_col(rows[w]) + 1, ReadyStatus(c.lang))
        ELSE IF c.code = "PERMANENT"
        THEN update_cell(sheet, c.row_num, status_col(rows[w]) + 1, "Permanently Failed")
        ELSE update_cell(sheet, c.row_num, status_col(rows[w]) + 1, FailedStatus(c.retry_count))

\* the first update_cell of lines 268-290
FirstWrite(w) ==
    LET c == cur[w]
    IN  IF c.code = "OK"
        THEN update_cell(sheet, c.row_num, transcript_col(rows[w]) + 1, c.text)
        ELSE IF c.code = "PERMANENT"
        THEN update_cell(sheet, c.row_num, status_col(rows[w]) + 1, "Permanently Failed")
        ELSE update_cell(sheet, c.row_num, status_col(rows[w]) + 1, FailedStatus(c.retry_count))

\* the second update_cell of lines 268-276
SecondWrite(w) ==
    LET c == cur[w]
    IN  IF c.code = "OK"
        THEN update_cell(sheet, c.row_num, status_col(rows[w]) + 1, ReadyStatus(c.lang))
        ELSE update_cell(sheet, c.row_num, transcript_col(rows[w]) + 1, c.text)

\* the first cell write of a success or of a permanent failure
Write1(w) ==
    /\ pc[w] = "write1"
    /\ cur[w].code \in {"OK", "PERMANENT"}
    /\ sheet' = FirstWrite(w)
    /\ pc' = [pc EXCEPT ![w] = "write2"]
    /\ cur' = [cur EXCEPT ![w].writes = 1]
    /\ UNCHANGED <<files, rows, pending_rows, retry_rows, processed, idx, done, invoked, kills>>

\* the only cell write of a transient failure, and the return
WriteFailed(w) ==
    /\ pc[w] = "write1"
    /\ cur[w].code \notin {"OK", "PERMANENT"}
    /\ sheet' = FirstWrite(w)
    /\ Return(w)
    /\ UNCHANGED <<files, rows, pending_rows, retry_rows, invoked, kills>>

\* the second cell write of a success or of a permanent failure, and the return
Write2(w) ==
    /\ pc[w] = "write2"
    /\ sheet' = SecondWrite(w)
    /\ Return(w)
    /\ UNCHANGED <<files, rows, pending_rows, retry_rows, invoked, kills>>

\* the run is terminated from outside (the job is cancelled, or an
\* update_cell raises) between two of its steps
Kill(w) ==
    /\ pc[w] \in {"pass1", "pass2", "write1", "write2"}
    /\ kills < MaxKills
    /\ pc' = [pc EXCEPT ![w] = "killed"]
    /\ kills' = kills + 1
    /\ UNCHANGED <<sheet, files, rows, pending_rows, retry_rows, processed, idx, cur, done, invoked>>

\* a step of a run under way, the tool behaving as one of RunsOf(tool, video_id)
Step(w, tool) ==
    \/ Pass1Row(w, tool)
    \/ Pass1End(w)
    \/ Pass2Row(w, tool)
    \/ Pass2End(w)
    \/ Write1(w)
    \/ WriteFailed(w)
    \/ Write2(w)

\* Sequential scheduled runs, each run to completion.
Next ==
    \/ StartRunExit("A")
    \/ StartRun("A")
    \/ Step("A", "core")

Spec == Init /\ [][Next]_vars

\* One run, under every tool behaviour, which may be terminated from outside.
NextRun ==
    \/ (pc["A"] = "idle" /\ StartRunExit("A"))
    \/ (pc["A"] = "idle" /\ StartRun("A"))
    \/ Step("A", "all")
    \/ Kill("A")

SpecRun == InitRun /\ [][NextRun]_vars

\* Sequential scheduled runs, each of which may be terminated from outside
\* at any point; the next run starts from the worksheet as it was left.
NextCrash ==
    \/ StartRun("A")
    \/ Step("A", "two texts")
    \/ Kill("A")

SpecCrash == InitCrash /\ [][NextCrash]_vars

\* Sequential scheduled runs repeated for ever, every run to completion: the
\* trigger fires again and again, and a run under way takes its next step.
NextLive ==
    \/ StartRun("A")
    \/ Step("A", "core")

SpecLive == InitLive /\ [][NextLive]_vars /\ WF_vars(NextLive)

\* Two scheduled runs that overlap: each does its own bulk read, then its
\* fetches and cell writes, interleaved with the other's in any order.
NextOverlap ==
    \E w \in Workers :
        \/ StartRunExit(w)
        \/ StartRun(w)
        \/ Step(w, "core")

SpecOverlap == InitOverlap /\ [][NextOverlap]_vars

-----------------------------------------------------------------------------
(* Properties *)

\* the Status and Transcript cells of a data row of the worksheet
StatusOf(sh, r) == sh[r][status_col(sh) + 1]
TranscriptOf(sh, r) == sh[r][transcript_col(sh) + 1]

\* a status string the scan does not select: neither 'Pending' /
\* 'Pending Transcript' nor prefixed 'Transcript Failed'
Unselectable(status) ==
    /\ status \notin {"Pending", "Pending Transcript"}
    /\ ~StartsWith(status, "Transcript Failed")

\* row r is the row a call of _process_one_row of run w is working on
InFrame(w, r) == pc[w] \in {"write1", "write2"} /\ cur[w].row_num = r

\* C1 as stated: in sequential runs, a row whose Status cell is a string that
\* is neither 'Pending'/'Pending Transcript' nor prefixed 'Transcript Failed'
\* (and that no call is in the middle of updating) is not passed to the
\* extractor and none of its cells is written, in any later step of any run.
C1_CellAsIs ==
    [][ HeadersComplete(sheet[1]) =>
          \A r \in RowNums :
              (Unselectable(StatusOf(sheet, r)) /\ ~InFrame("A", r))
                  => (sheet'[r] = sheet[r] /\ invoked'[r] = invoked[r]) ]_vars

\* C1 amended: the same, for a row whose Status cell with its surrounding
\* whitespace stripped is such a string.
C1_Unselected ==
    [][ HeadersComplete(sheet[1]) =>
          \A r \in RowNums :
              (Unselectable(Strip(StatusOf(sheet, r))) /\ ~InFrame("A", r))
                  => (sheet'[r] = sheet[r] /\ invoked'[r] = invoked[r]) ]_vars

\* C1 witness: a run that processed some row has completed after its bulk
\* read found another row, processed by an earlier run, with a terminal status.
C1_Witness ==
    /\ pc["A"] = "done"
    /\ Len(done["A"]) >= 1
    /\ \E r \in RowNums :
          /\ invoked[r] >= 1
          /\ Unselectable(Strip(StatusOf(rows["A"], r)))
          /\ \A i \in 1..Len(done["A"]) : done["A"][i].row_num # r

\* the step is the status write of a transient failure of row r by run w
FailedWrite(w, r) ==
    /\ pc[w] = "write1"
    /\ cur[w].code = "FAILED"
    /\ cur[w].row_num = r
    /\ pc'[w] = cur[w].ret

\* row r was processed by the run of w that is under way or just ended
Processed(w, r) == \E i \in 1..Len(done[w]) : done[w][i].row_num = r

\* C2 as stated: with ceiling 3, each transient failure of a processed row
\* moves 'Transcript Failed' to 'Transcript Failed x2', that to
\* 'Transcript Failed x3', and that to 'Permanently Failed', where it stays.
C2_ViaX3 ==
    [][ HeadersComplete(sheet[1]) =>
          \A r \in RowNums :
              /\ FailedWrite("A", r) =>
                    /\ StatusOf(sheet, r) = "Transcript Failed"
                          => StatusOf(sheet', r) = "Transcript Failed x2"
                    /\ StatusOf(sheet, r) = "Transcript Failed x2"
                          => StatusOf(sheet', r) = "Transcript Failed x3"
                    /\ StatusOf(sheet, r) = "Transcript Failed x3"
                          => StatusOf(sheet', r) = "Permanently Failed"
              /\ (StatusOf(sheet, r) = "Permanently Failed" /\ ~InFrame("A", r))
                    => (StatusOf(sheet', r) = "Permanently Failed" /\ invoked'[r] = invoked[r]) ]_vars

\* C2 amended: each transient failure of a processed row moves
\* 'Transcript Failed' to 'Transcript Failed x2' and that to 'Permanently
\* Failed' ('Transcript Failed x3' is never written); a run processes a row
\* at most once, and a 'Permanently Failed' row stays so, never fetched again.
C2_Sequence ==
    [][ HeadersComplete(sheet[1]) =>
          \A r \in RowNums :
              /\ FailedWrite("A", r) =>
                    /\ StatusOf(sheet, r) = "Transcript Failed"
                          => StatusOf(sheet', r) = "Transcript Failed x2"
                    /\ StatusOf(sheet, r) = "Transcript Failed x2"
                          => StatusOf(sheet', r) = "Permanently Failed"
                    /\ StatusOf(sheet', r) # "Transcript Failed x3"
              /\ invoked'[r] # invoked[r] => ~Processed("A", r)
              /\ (StatusOf(sheet, r) = "Permanently Failed" /\ ~InFrame("A", r))
                    => (StatusOf(sheet', r) = "Permanently Failed" /\ invoked'[r] = invoked[r]) ]_vars

\* C2 witness: a row that started as 'Transcript Failed' is 'Permanently
\* Failed' after two fetches that failed transiently (its Transcript cell is
\* still empty), and a later run that read it so has completed.
C2_Witness ==
    /\ pc["A"] = "done"
    /\ \E r \in RowNums :
          /\ r % 3 # 1
          /\ invoked[r] = 2
          /\ StatusOf(sheet, r) = "Permanently Failed"
          /\ TranscriptOf(sheet, r) = EmptyText
          /\ StatusOf(rows["A"], r) = "Permanently Failed"

\* a status at or over the retry ceiling
AtCeiling(status) ==
    StartsWith(Strip(status), "Transcript Failed") /\ parse_retry_count(Strip(status)) >= MAX_RETRIES

\* C3: in sequential runs the extractor is invoked at most MAX_RETRIES times
\* for a row; a row fetched MAX_RETRIES times without a success or a
\* permanent failure (its Transcript cell was never written) is 'Permanently
\* Failed'; a row whose status is 'Transcript Failed xN' with N >= MAX_RETRIES
\* was never fetched.
C3_Ceiling ==
    HeadersComplete(sheet[1]) =>
        \A r \in RowNums :
            /\ invoked[r] <= MAX_RETRIES
            /\ (invoked[r] = MAX_RETRIES /\ ~InFrame("A", r) /\ TranscriptOf(sheet, r) = EmptyText)
                  => StatusOf(sheet, r) = "Permanently Failed"
            /\ AtCeiling(StatusOf(sheet, r)) => invoked[r] = 0

\* C3 witness: a run has completed with one row 'Permanently Failed' after
\* three transient failures and another row over the ceiling never fetched.
C3_Witness ==
    /\ pc["A"] = "done"
    /\ \E r \in RowNums :
          /\ invoked[r] = MAX_RETRIES
          /\ StatusOf(sheet, r) = "Permanently Failed"
          /\ TranscriptOf(sheet, r) = EmptyText
    /\ \E r \in RowNums :
          /\ AtCeiling(StatusOf(sheet, r))
          /\ parse_retry_count(Strip(StatusOf(sheet, r))) > MAX_RETRIES
          /\ invoked[r] = 0

\* the step is the call of _process_one_row of run w returning
Returns(w) == Len(done'[w]) = Len(done[w]) + 1

\* C4: a permanent failure, at any prior attempt count, sets the Status cell
\* to 'Permanently Failed' with the first write (never 'Transcript Failed' or
\* 'Transcript Failed xN') and the Transcript cell to the diagnostic text with
\* the second, and the row keeps both for the rest of the run.
C4_Permanent ==
    [][ HeadersComplete(sheet[1]) =>
          /\ (pc["A"] = "write1" /\ cur["A"].code = "PERMANENT" /\ pc'["A"] = "write2")
                => StatusOf(sheet', cur["A"].row_num) = "Permanently Failed"
          /\ (Returns("A") /\ cur["A"].code = "PERMANENT")
                => /\ StatusOf(sheet', cur["A"].row_num) = "Permanently Failed"
                   /\ TranscriptOf(sheet', cur["A"].row_num) = cur["A"].text
                   /\ cur["A"].text.kind = "diag"
          /\ \A i \in 1..Len(done'["A"]) :
                done'["A"][i].code = "PERMANENT"
                    => /\ StatusOf(sheet', done'["A"][i].row_num) = "Permanently Failed"
                       /\ TranscriptOf(sheet', done'["A"][i].row_num).kind = "diag" ]_vars

\* C4 witness: a run has completed in which a 'Pending' row and a
\* 'Transcript Failed x2' row both failed permanently.
C4_Witness ==
    /\ pc["A"] = "done"
    /\ \E i, j \in 1..Len(done["A"]) :
          /\ done["A"][i].code = "PERMANENT"
          /\ done["A"][j].code = "PERMANENT"
          /\ StatusOf(rows["A"], done["A"][i].row_num) = "Pending"
          /\ StatusOf(rows["A"], done["A"][j].row_num) = "Transcript Failed x2"
          /\ StatusOf(sheet, done["A"][j].row_num) = "Permanently Failed"

\* C5: a success sets the Transcript cell to the text fetch_transcript
\* returned (at most MAX_TEXT_LEN long) and the Status cell to
\* 'Ready for AI (lang)' with the language it returned, whatever the retry
\* count, and the row keeps both for the rest of the run.
C5_Success ==
    [][ HeadersComplete(sheet[1]) =>
          /\ (Returns("A") /\ cur["A"].code = "OK")
                => /\ StatusOf(sheet', cur["A"].row_num) = "Ready for AI (" \o cur["A"].lang \o ")"
                   /\ TranscriptOf(sheet', cur["A"].row_num) = cur["A"].text
                   /\ cur["A"].text.len <= MAX_TEXT_LEN
          /\ \A i \in 1..Len(done'["A"]) :
                done'["A"][i].code = "OK"
                    => LET t == TranscriptOf(sheet', done'["A"][i].row_num)
                       IN  /\ t.kind = "caption"
                           /\ StatusOf(sheet', done'["A"][i].row_num)
                                 = "Ready for AI (" \o SplitDotPenultimate(t.of) \o ")" ]_vars

\* C5 witness: a run has completed in which a 'Pending' row and a 'Transcript
\* Failed x2' row both succeeded, one of them in Korean with a text cut to
\* MAX_TEXT_LEN.
C5_Witness ==
    /\ pc["A"] = "done"
    /\ \E i, j \in 1..Len(done["A"]) :
          /\ done["A"][i].code = "OK"
          /\ done["A"][j].code = "OK"
          /\ StatusOf(rows["A"], done["A"][i].row_num) = "Pending"
          /\ StatusOf(rows["A"], done["A"][j].row_num) = "Transcript Failed x2"
          /\ StatusOf(sheet, done["A"][j].row_num) = "Ready for AI (ko)"
          /\ TranscriptOf(sheet, done["A"][j].row_num).len = MAX_TEXT_LEN

\* the row_nums of the first n entries of a list of the scan
RowNumsOf(list, n) == [i \in 1..n |-> list[i][1]]

\* C6: a run never processes more than MAX_ROWS_PER_RUN rows; a completed run
\* has processed exactly the first min(P, B) pending rows and then the first
\* min(R, B - P) retry rows (none when P >= B), and every other row is as the
\* bulk read found it.
C6_Budget ==
    LET P == Len(pending_rows["A"])
        R == Len(retry_rows["A"])
        B == MAX_ROWS_PER_RUN
        nP == Min(P, B)
        nR == IF P >= B THEN 0 ELSE Min(R, B - P)
    IN  /\ Len(done["A"]) <= B
        /\ pc["A"] = "done" =>
              /\ [i \in 1..Len(done["A"]) |-> done["A"][i].row_num]
                    = RowNumsOf(pending_rows["A"], nP) \o RowNumsOf(retry_rows["A"], nR)
              /\ \A r \in RowNums : ~Processed("A", r) => sheet[r] = rows["A"][r]

\* C6 witness: a run with one pending row and two retry rows has completed,
\* having processed the pending row and the first retry row only.
C6_Witness ==
    /\ pc["A"] = "done"
    /\ Len(pending_rows["A"]) = 1
    /\ Len(retry_rows["A"]) = MAX_ROWS_PER_RUN
    /\ Len(done["A"]) = MAX_ROWS_PER_RUN
    /\ done["A"][1].row_num = pending_rows["A"][1][1]
    /\ done["A"][2].row_num = retry_rows["A"][1][1]
    /\ StatusOf(sheet, retry_rows["A"][MAX_ROWS_PER_RUN][1]) = retry_rows["A"][MAX_ROWS_PER_RUN][3]

\* C7: whatever the tool did (caption, error, timeout, exception),
\* fetch_transcript's result is one of the three codes, the call ends with the
\* status update that code, language and retry count of that row alone
\* determine, the loop goes on, no cell of another row changes, and a
\* completed run has processed every selected row the budget allows.
C7_Contained ==
    [][ HeadersComplete(sheet[1]) =>
          /\ cur'["A"].code \in {"", "OK", "PERMANENT", "FAILED"}
          /\ Returns("A") =>
                /\ StatusOf(sheet', cur["A"].row_num) =
                      ( IF cur["A"].code = "OK" THEN "Ready for AI (" \o cur["A"].lang \o ")"
                        ELSE IF cur["A"].code = "PERMANENT" THEN "Permanently Failed"
                        ELSE IF cur["A"].retry_count + 1 >= MAX_RETRIES THEN "Permanently Failed"
                        ELSE IF cur["A"].retry_count = 0 THEN "Transcript Failed"
                        ELSE "Transcript Failed x" \o IntToStr(cur["A"].retry_count + 1) )
                /\ pc'["A"] \in {"pass1", "pass2"}
          /\ \A r \in RowNums : sheet'[r] # sheet[r] => InFrame("A", r)
          /\ sheet'[1] = sheet[1]
          /\ pc'["A"] = "done" =>
                Len(done'["A"]) = Min(MAX_ROWS_PER_RUN, Len(pending_rows'["A"]) + Len(retry_rows'["A"])) ]_vars

\* C7 witness: after a row that failed, the run is in the call for the next
\* row, where an exception raised in fetch_transcript has become a failure.
C7_Witness ==
    /\ pc["A"] = "write1"
    /\ Len(done["A"]) = 1
    /\ done["A"][1].code = "FAILED"
    /\ cur["A"].code = "FAILED"
    /\ cur["A"].text = Diag("str(e)")

\* a status this program never selects again
Terminal(status) ==
    StartsWith(Strip(status), "Ready for AI (") \/ Strip(status) = "Permanently Failed"

\* C8: when two runs overlap, a row whose status is 'Ready for AI (...)' or
\* 'Permanently Failed' is never written with another status that is not
\* terminal, and its Transcript cell changes only by the second write of the
\* call that has just written 'Permanently Failed'.
C8_TerminalKept ==
    [][ HeadersComplete(sheet[1]) =>
          \A r \in RowNums :
              Terminal(StatusOf(sheet, r)) =>
                  /\ Terminal(StatusOf(sheet', r))
                  /\ TranscriptOf(sheet', r) # TranscriptOf(sheet, r) =>
                        /\ StatusOf(sheet, r) = "Permanently Failed"
                        /\ \E w \in Workers :
                              /\ pc[w] = "write2" /\ pc'[w] # "write2"
                              /\ cur[w].row_num = r /\ cur[w].code = "PERMANENT" ]_vars

\* C9: a run stopped between the two cell writes of a success or of a
\* permanent failure has written the Transcript cell and has left the Status
\* cell as the bulk read found it, so the row is selected again.
C9_PayloadFirst ==
    HeadersComplete(sheet[1]) =>
        ( (pc["A"] = "killed" /\ cur["A"].writes = 1 /\ cur["A"].code \in {"OK", "PERMANENT"}) =>
              /\ TranscriptOf(sheet, cur["A"].row_num) = cur["A"].text
              /\ StatusOf(sheet, cur["A"].row_num) = StatusOf(rows["A"], cur["A"].row_num)
              /\ RowClass(sheet, cur["A"].row_num, id_col(sheet), status_col(sheet))
                    \in {"pending", "retry"} )

\* C10: when fetch_transcript(video_id) has returned, the working directory
\* holds no file whose name starts with temp_<video_id>.
C10_NoTempFiles ==
    pc["A"] = "write1" =>
        \A f \in files : ~StartsWith(f.name, TempPrefix(cur["A"].video_id))

\* one of the three required headers is not in row 1
HeaderMissing(headers) ==
    \E name \in {"Video ID", "Transcript", "Status"} : \A i \in 1..Len(headers) : headers[i] # name

\* the exit status of the process: sys.exit(message) exits with status 1
ExitStatus(w) == IF pc[w] = "exit" THEN 1 ELSE 0

\* C11: when a required header is missing from row 1, the only thing a run
\* does is the bulk read followed by the exit with a non-zero status: no
\* fetch, no cell write, and the worksheet is as the bulk read found it.
C11_HeaderExit ==
    [][ HeaderMissing(sheet[1]) =>
          /\ pc'["A"] = "exit"
          /\ ExitStatus("A")' # 0
          /\ sheet' = sheet
          /\ sheet' = rows'["A"]
          /\ invoked' = invoked
          /\ files' = files
          /\ cur'["A"] = NoFrame ]_vars

\* C11 witness: a run has exited on a worksheet whose 'Transcript' header is
\* missing and whose first data row is 'Pending' with a video id.
C11_Witness ==
    /\ pc["A"] = "exit"
    /\ ExitStatus("A") = 1
    /\ ~HasHeader(sheet[1], "Transcript")
    /\ HasHeader(sheet[1], "Video ID") /\ HasHeader(sheet[1], "Status")
    /\ sheet[2][1] = VideoId(2) /\ sheet[2][2] = "Pending"
    /\ invoked[2] = 0

\* a status that carries an attempt count: one the scan selects or parks
Counted(status) ==
    Strip(status) \in {"Pending", "Pending Transcript"} \/ StartsWith(Strip(status), "Transcript Failed")

\* the attempt count a status carries: 0 for a new row, the parsed count for
\* a failed one
AttemptCount(status) ==
    IF Strip(status) \in {"Pending", "Pending Transcript"} THEN 0
    ELSE parse_retry_count(Strip(status))

\* C12: in sequential runs the attempt count of a row never decreases and a
\* row that has left the counted statuses never gets one again; a status
\* without a numeric suffix counts 1; and the status written after a
\* transient failure encodes the count of the status the bulk read of that
\* run found, plus one ('Permanently Failed' from the ceiling on).
C12_Counter ==
    [][ HeadersComplete(sheet[1]) =>
          \A r \in RowNums :
              /\ sheet'[r] # sheet[r] =>
                    /\ AttemptCount("Transcript Failed") = 1
                    /\ AttemptCount("Transcript Failed x") = 1
                    /\ (Counted(StatusOf(sheet, r)) /\ Counted(StatusOf(sheet', r)))
                          => AttemptCount(StatusOf(sheet', r)) >= AttemptCount(StatusOf(sheet, r))
                    /\ ~Counted(StatusOf(sheet, r)) => ~Counted(StatusOf(sheet', r))
              /\ FailedWrite("A", r) =>
                    LET n == AttemptCount(StatusOf(rows["A"], r)) + 1
                    IN  IF n >= MAX_RETRIES
                        THEN StatusOf(sheet', r) = "Permanently Failed"
                        ELSE /\ StartsWith(StatusOf(sheet', r), "Transcript Failed")
                             /\ AttemptCount(StatusOf(sheet', r)) = n ]_vars

\* C12 witness: a run has completed in which a row read as 'Transcript
\* Failed x0' (count 0) failed and is now 'Transcript Failed' (count 1).
C12_Witness ==
    /\ pc["A"] = "done"
    /\ \E r \in RowNums :
          /\ Processed("A", r)
          /\ StatusOf(rows["A"], r) = "Transcript Failed x0"
          /\ StatusOf(sheet, r) = "Transcript Failed"

\* C13: every value a step stores in a Transcript cell is at most
\* MAX_TEXT_LEN long, on the success path and on the permanent-failure path;
\* and the text a successful fetch hands to the writes is the text of one
\* of the caption files the tool may write for the video, cut to
\* MAX_TEXT_LEN: exactly MAX_TEXT_LEN when the file's text is longer, the
\* whole text otherwise.
C13_MaxPayload ==
    [][ HeadersComplete(sheet[1]) =>
          /\ \A r \in RowNums :
                TranscriptOf(sheet', r) # TranscriptOf(sheet, r)
                    => /\ TranscriptOf(sheet', r).len <= MAX_TEXT_LEN
                       /\ TranscriptOf(sheet', r) = cur["A"].text
          /\ (pc'["A"] = "write1" /\ cur'["A"].code = "OK") =>
                /\ cur'["A"].text.len <= MAX_TEXT_LEN
                /\ \E f \in UNION ToolFileSets(cur'["A"].video_id) :
                      /\ cur'["A"].text.of = f.name
                      /\ f.len > MIN_TEXT_LEN
                      /\ cur'["A"].text.len = (IF f.len > MAX_TEXT_LEN THEN MAX_TEXT_LEN ELSE f.len) ]_vars

\* C13 witness: the Transcript write of a success has been issued (the Status
\* write has not) with a text cut to MAX_TEXT_LEN, after a row of the same
\* run failed permanently and got its diagnostic text.
C13_Witness ==
    /\ pc["A"] = "write2"
    /\ cur["A"].code = "OK"
    /\ TranscriptOf(sheet, cur["A"].row_num).len = MAX_TEXT_LEN
    /\ TranscriptOf(sheet, cur["A"].row_num).kind = "caption"
    /\ \E i \in 1..Len(done["A"]) :
          /\ done["A"][i].code = "PERMANENT"
          /\ TranscriptOf(sheet, done["A"][i].row_num).kind = "diag"

\* the (code, text) the first matching rule of the ordered list gives for a
\* tool run without a usable caption
RuleOrder(run) ==
    IF Contains(run.stderr, "Sign in") THEN <<"PERMANENT", Diag("Age Restricted / Sign-in Required")>>
    ELSE IF Contains(run.stderr, "Video unavailable") THEN <<"PERMANENT", Diag("Video Deleted or Private")>>
    ELSE IF Contains(run.stderr, "Private video") THEN <<"PERMANENT", Diag("Video is Private")>>
    ELSE IF run.returncode # 0 THEN <<"FAILED", Classify(run, EmptyText, "xx").text>>
    ELSE <<"FAILED", Diag("No transcript data found")>>

\* C14: for the video a call of _process_one_row has just fetched, and for
\* every exit code, diagnostic text and set of files the tool may leave:
\* when no caption file holds a text of more than MIN_TEXT_LEN characters,
\* fetch_transcript returns what the first matching rule of the ordered list
\* gives; when every caption file holds a longer text it returns OK.
C14_RuleOrder ==
    pc["A"] = "write1" =>
        \A run \in ToolRuns(cur["A"].video_id) :
            run.end = "exit" =>
                LET caps == {f \in run.created : IsCaptionName(f.name)}
                IN  \A res \in fetch_transcript(cur["A"].video_id, run, files) :
                        /\ (\A f \in caps : f.len <= MIN_TEXT_LEN)
                              => <<res.code, res.text>> = RuleOrder(run)
                        /\ (caps # {} /\ \A f \in caps : f.len > MIN_TEXT_LEN)
                              => res.code = "OK"

\* the row_nums run w has invoked the extractor for, in the order of the calls
Invocations(w) ==
    [i \in 1..Len(done[w]) |-> done[w][i].row_num]
    \o (IF pc[w] \in {"write1", "write2"} \/ (pc[w] = "killed" /\ cur[w].row_num # 0)
        THEN <<cur[w].row_num>> ELSE <<>>)

\* the class the scan gave row r in the snapshot of run w: the list it put
\* the row in
SnapshotClass(w, r) ==
    IF \E i \in 1..Len(pending_rows[w]) : pending_rows[w][i][1] = r THEN "pending"
    ELSE IF \E i \in 1..Len(retry_rows[w]) : retry_rows[w][i][1] = r THEN "retry"
    ELSE "skip"

\* C15: in the order a run invokes the extractor, no pending row of its
\* snapshot comes after a retry row, rows of the same class come in
\* increasing row position, no row comes twice, only pending and retry rows
\* come at all, and once a retry row has been invoked every pending row of
\* the snapshot has been.
C15_PendingFirst ==
    HeadersComplete(sheet[1]) =>
        LET inv == Invocations("A")
        IN  /\ \A i \in 1..Len(inv) : SnapshotClass("A", inv[i]) \in {"pending", "retry"}
            /\ \A i, j \in 1..Len(inv) :
                  i < j =>
                      /\ inv[i] # inv[j]
                      /\ SnapshotClass("A", inv[i]) = "retry" => SnapshotClass("A", inv[j]) = "retry"
                      /\ SnapshotClass("A", inv[i]) = SnapshotClass("A", inv[j]) => inv[i] < inv[j]
            /\ (\E i \in 1..Len(inv) : SnapshotClass("A", inv[i]) = "retry")
                  => \A r \in RowNums :
                         SnapshotClass("A", r) = "pending" => \E i \in 1..Len(inv) : inv[i] = r

\* C15 witness: a completed run processed a pending row and then a retry
\* row that stands above it in the worksheet.
C15_Witness ==
    /\ pc["A"] = "done"
    /\ Len(done["A"]) = 2
    /\ SnapshotClass("A", done["A"][1].row_num) = "pending"
    /\ SnapshotClass("A", done["A"][2].row_num) = "retry"
    /\ done["A"][2].row_num < done["A"][1].row_num

\* C16: in every state of sequential runs that may be terminated at any
\* point, a row whose status is 'Ready for AI (lang)' holds in its Transcript
\* cell either the transcript it started with (the row was never fetched) or
\* the text of a caption file of its own video in the language the status
\* names, cut to MAX_TEXT_LEN: the text of the fetch that produced the status.
C16_ReadyHasText ==
    \A r \in RowNums :
        StartsWith(Strip(StatusOf(sheet, r)), "Ready for AI (") =>
            LET t == TranscriptOf(sheet, r)
            IN  \/ (invoked[r] = 0 /\ t = PriorText)
                \/ /\ invoked[r] >= 1
                   /\ t.kind = "caption"
                   /\ StartsWith(t.of, TempPrefix(Strip(sheet[r][id_col(sheet) + 1])))
                   /\ StatusOf(sheet, r) = "Ready for AI (" \o SplitDotPenultimate(t.of) \o ")"
                   /\ t.len > MIN_TEXT_LEN /\ t.len <= MAX_TEXT_LEN

\* C16 witness: a run was terminated between the two writes of a success
\* (the bulk read of the next run found the Korean text next to the old
\* status), and that next run has completed after a second success of the
\* row, which is 'Ready for AI (en)' with the English text.
C16_Witness ==
    /\ pc["A"] = "done"
    /\ kills >= 1
    /\ \E r \in RowNums :
          /\ invoked[r] = 2
          /\ StatusOf(rows["A"], r) = "Pending"
          /\ TranscriptOf(rows["A"], r).kind = "caption"
          /\ SplitDotPenultimate(TranscriptOf(rows["A"], r).of) = "ko"
          /\ StatusOf(sheet, r) = "Ready for AI (en)"
          /\ SplitDotPenultimate(TranscriptOf(sheet, r).of) = "en"

\* the status a transient failure stores for a row read with status s
AfterFailure(s) ==
    LET n == AttemptCount(s) + 1
    IN  IF n >= MAX_RETRIES THEN "Permanently Failed"
        ELSE IF n = 1 THEN "Transcript Failed"
        ELSE "Transcript Failed x" \o IntToStr(n)

\* run w has processed row r with a transient failure
FailedIn(w, r) ==
    \E i \in 1..Len(done[w]) : done[w][i].row_num = r /\ done[w][i].code = "FAILED"

\* C17: when runs overlap, the status write of a transient failure stores
\* the status determined by the status string the bulk read of that run
\* found, whatever the cell holds by then, and storing it once more changes
\* nothing; hence when two runs that read the same status of a row have both
\* failed on it, the row holds that one status, its attempt count one above
\* the count read.
C17_Idempotent ==
    [][ HeadersComplete(sheet[1]) =>
          \A r \in RowNums :
              /\ \A w \in Workers :
                    FailedWrite(w, r) =>
                        /\ StatusOf(sheet', r) = AfterFailure(StatusOf(rows[w], r))
                        /\ update_cell(sheet', r, status_col(rows[w]) + 1, StatusOf(sheet', r)) = sheet'
              /\ (FailedIn("A", r)' /\ FailedIn("B", r)' /\ StatusOf(rows'["A"], r) = StatusOf(rows'["B"], r))
                    => /\ StatusOf(sheet', r) = AfterFailure(StatusOf(rows'["A"], r))
                       /\ StatusOf(sheet', r) # "Permanently Failed"
                             => AttemptCount(StatusOf(sheet', r)) = AttemptCount(StatusOf(rows'["A"], r)) + 1 ]_vars

\* C17 witness: two runs that both read a row as 'Transcript Failed' have
\* both failed on it and completed; the row is 'Transcript Failed x2'.
C17_Witness ==
    /\ pc["A"] = "done" /\ pc["B"] = "done"
    /\ \E r \in RowNums :
          /\ FailedIn("A", r) /\ FailedIn("B", r)
          /\ StatusOf(rows["A"], r) = "Transcript Failed"
          /\ StatusOf(rows["B"], r) = "Transcript Failed"
          /\ StatusOf(sheet, r) = "Transcript Failed x2"
          /\ invoked[r] = 2

\* the scan of the worksheet as it is would select row r
Selectable(r) ==
    RowClass(sheet, r, id_col(sheet), status_col(sheet)) \in {"pending", "retry"}

\* no row is selectable, the run under way (if any) selected no row and is
\* not in a call of _process_one_row
Quiet ==
    /\ \A r \in RowNums : ~Selectable(r)
    /\ pending_rows["A"] = <<>> /\ retry_rows["A"] = <<>>
    /\ pc["A"] \notin {"write1", "write2"}

\* C18: with runs repeated sequentially and to completion, whatever the
\* tool does, eventually and for ever: no row is selectable (a row that was
\* pending or retryable has left that status), every row that was fetched is
\* 'Ready for AI (...)' or 'Permanently Failed', and every run selects no
\* row and issues no write.
C18_Settles ==
    <>[](Quiet /\ \A r \in RowNums : invoked[r] >= 1 => Terminal(StatusOf(sheet, r)))

\* C18 witness: a run that selected no row has completed on a worksheet on
\* which a row reached 'Permanently Failed' after three fetches and another
\* row 'Ready for AI (en)' after a fetch.
C18_Witness ==
    /\ pc["A"] = "done"
    /\ Quiet
    /\ done["A"] = <<>>
    /\ \E r \in RowNums : invoked[r] = MAX_RETRIES /\ StatusOf(sheet, r) = "Permanently Failed"
    /\ \E r \in RowNums : invoked[r] >= 1 /\ StatusOf(sheet, r) = "Ready for AI (en)"

\* row r is in one of the two lists the scan of run w made
InLists(w, r) ==
    \/ \E i \in 1..Len(pending_rows[w]) : pending_rows[w][i][1] = r
    \/ \E i \in 1..Len(retry_rows[w]) : retry_rows[w][i][1] = r

\* C19: a step of a run leaves the header row, every Video ID cell, every
\* row with an empty Video ID and every row that is not in the lists of its
\* bulk read as they are; it changes cells of the row of the call under way
\* only; the write of a transient failure leaves the Transcript cell as it
\* was; and the lists of the bulk read are not changed after the scan.
C19_Frame ==
    [][ /\ sheet'[1] = sheet[1]
        /\ Len(sheet') = Len(sheet)
        /\ \A r \in RowNums :
              /\ Len(sheet'[r]) = Len(sheet[r])
              /\ sheet'[r][id_col(sheet) + 1] = sheet[r][id_col(sheet) + 1]
              /\ Strip(sheet[r][id_col(sheet) + 1]) = "" => sheet'[r] = sheet[r]
              /\ ~InLists("A", r) => sheet'[r] = sheet[r]
              /\ sheet'[r] # sheet[r] => InFrame("A", r)
              /\ FailedWrite("A", r) =>
                    /\ TranscriptOf(sheet', r) = TranscriptOf(sheet, r)
                    /\ TranscriptOf(sheet', r) = TranscriptOf(rows["A"], r)
                    /\ StatusOf(sheet', r) # StatusOf(sheet, r)
        /\ pc["A"] \in {"pass1", "pass2", "write1", "write2"} =>
              /\ rows'["A"] = rows["A"]
              /\ pending_rows'["A"] = pending_rows["A"]
              /\ retry_rows'["A"] = retry_rows["A"] ]_vars

\* C19 witness: a run has completed in which a row failed transiently whose
\* Transcript cell held the text an earlier, terminated run had stored; the
\* cell still holds it under the new status, next to a row without video id.
C19_Witness ==
    /\ pc["A"] = "done"
    /\ \E r \in RowNums :
          /\ FailedIn("A", r)
          /\ TranscriptOf(rows["A"], r).kind = "caption"
          /\ TranscriptOf(sheet, r) = TranscriptOf(rows["A"], r)
          /\ StatusOf(rows["A"], r) = "Pending"
          /\ StatusOf(sheet, r) = "Transcript Failed"
    /\ \E r \in RowNums : Strip(sheet[r][id_col(sheet) + 1]) = "" /\ sheet[r] = rows["A"][r]

====
